---- MODULE Spec2Model ----
(***************************************************************************)
(* A model of heapAllocator.c: a first-fit free-list allocator over a      *)
(* program-break arena, with split on reuse, forward coalescing on free,   *)
(* a sentinel check on free, usage statistics and a leak audit at exit.    *)
(*                                                                         *)
(* Memory is a map from header address to the header stored there; the     *)
(* chain is the list of headers reachable from allChunks through next.     *)
(* Threads run the public entry points heapAlloc (allocWithStats ->        *)
(* myAlloc) and heapFree one step at a time, a step being one access to    *)
(* shared state or one run of straight-line code under the lock.           *)
(***************************************************************************)
EXTENDS Integers, Sequences, FiniteSets, TLC

\* ------------------------------------------------------------ constants

\* sizeof(heapChunk) on an LP64 target: int+pad, size_t, bool+pad, ptr, ptr, int+pad
CHUNK_SIZE == 48

ALIGNMENT == 8

\* 0x12345678
MAGIC_NUMBER == 305419896

NULL == 0

\* the program break before the first sbrk call
InitialBreak == 4096

\* ---------------------------------------------------------------- bounds

\* number of threads calling the allocator
NThreads == 2

\* total number of heapAlloc calls made by all threads together
MaxCalls == 3

\* number of calls the history keeps
HistLen == 3

\* width of size_t in the model (the arithmetic on sizes is modulo 2^SizeBits)
SizeBits == 16

Threads == 1 .. NThreads

\* the thread running main() in the sequential specification
MainThread == 1

NoThread == 0

\* the byte counts passed to heapAlloc: 0 is rejected, 5 and 60 are main()'s
\* requests, 12 rounds up to a size that fits a 64-byte chunk without a split
Requests == {0, 5, 12, 60}

\* the largest size_t value: ALIGN wraps it to 0
SizeMax == 2 ^ SizeBits - 1

\* the byte counts of the specification that includes a request near SIZE_MAX
WideRequests == Requests \cup {SizeMax}

\* the byte counts of the threads under the fair scheduler
FairRequests == {5, 60}

\* the requests made in mode m
RequestsOf(m) ==
    IF m = "wide" THEN WideRequests
    ELSE IF m = "fair" THEN FairRequests
    ELSE Requests

\* the modes in which every thread calls the allocator
Concurrent == {"threads", "fair"}

\* values a caller may leave in a sentinel it has overwritten
BadSentinels == {0}

SizeRange == 2 ^ SizeBits

VARIABLES
    allChunks,   \* head of the chunk chain (a header address or NULL)
    mem,         \* header address -> [magic, size, isFree, next, line]
    brk,         \* the program break: the arena is [InitialBreak, brk)
    lock,        \* owner of global_malloc_lock, or NoThread
    mem_stats,   \* the MemoryStats record
    pc,          \* per thread: the statement it is about to execute
    bytes,       \* per thread: allocWithStats's argument
    size,        \* per thread: myAlloc's size (aligned once the lock is held)
    reg,         \* per thread: the value of allocCalls it has loaded
    chunk,       \* per thread: myAlloc's / heapFree's chunk
    last,        \* per thread: myAlloc's last
    held,        \* per thread: the payload pointers it was given and has not released
    phase,       \* "running", "audit" (checkForUnfreedChunks is walking) or "exited"
    current,     \* checkForUnfreedChunks's current
    calls,       \* number of heapAlloc calls started so far
    mode,        \* "threads": every thread calls; "main": MainThread alone calls;
                 \* "wide": as "main", with a request near SIZE_MAX among the inputs;
                 \* "fair": as "threads", with the byte counts FairRequests
    hist         \* in mode "main": the last calls, each with the state it started in

vars == <<allChunks, mem, brk, lock, mem_stats, pc, bytes, size, reg, chunk, last,
          held, phase, current, calls, mode, hist>>

\* ------------------------------------------------------- pure functions

\* ALIGN(size): the next multiple of ALIGNMENT, in size_t arithmetic
ALIGN(s) ==
    LET t == (s + (ALIGNMENT - 1)) % SizeRange
    IN  t - (t % ALIGNMENT)

\* a header; line stands for the origin (file, line), which the model identifies
\* with the calling thread; it is never read while the chunk is free
Header(magic, sz, isFree, next, line) ==
    [magic |-> magic, size |-> sz, isFree |-> isFree, next |-> next, line |-> line]

\* the loop of findFreeChunk from current, with *last = l so far
RECURSIVE findLoop(_, _, _, _)
findLoop(m, cur, l, sz) ==
    IF cur # NULL /\ ~(m[cur].isFree /\ m[cur].size >= sz)
    THEN findLoop(m, m[cur].next, cur, sz)
    ELSE [chunk |-> cur, last |-> l]

\* a search that forgets the isFree test
RECURSIVE findLoopAnyChunk(_, _, _, _)
findLoopAnyChunk(m, cur, l, sz) ==
    IF cur # NULL /\ ~(m[cur].size >= sz)
    THEN findLoopAnyChunk(m, m[cur].next, cur, sz)
    ELSE [chunk |-> cur, last |-> l]

findAnyChunk(m, head, l, sz) == findLoopAnyChunk(m, head, l, sz)

\* a search that takes a free chunk only when it is larger than the request
RECURSIVE findLoopStrict(_, _, _, _)
findLoopStrict(m, cur, l, sz) ==
    IF cur # NULL /\ ~(m[cur].isFree /\ m[cur].size > sz)
    THEN findLoopStrict(m, m[cur].next, cur, sz)
    ELSE [chunk |-> cur, last |-> l]

findLargerChunk(m, head, l, sz) == findLoopStrict(m, head, l, sz)

\* findFreeChunk(&last, size) with last initialised to l
findFreeChunk(m, head, l, sz) == findLoop(m, head, l, sz)

\* a threshold of one header width alone: a remainder of size 0 is split off
splitNeededHeaderOnly(chunkSize, sz) ==
    (chunkSize - sz) % SizeRange >= CHUNK_SIZE

\* the test of myAlloc that decides for a split
splitNeeded(chunkSize, sz) ==
    (chunkSize - sz) % SizeRange >= CHUNK_SIZE + ALIGNMENT

\* a split that does not stamp the sentinel of the new header
splitChunkNoSentinel(m, c, sz) ==
    LET newChunk == c + sz + CHUNK_SIZE
        hdr == Header(IF newChunk \in DOMAIN m THEN m[newChunk].magic ELSE 0,
                      (m[c].size - sz - CHUNK_SIZE) % SizeRange, TRUE,
                      m[c].next, NoThread)
    IN  (newChunk :> hdr) @@ [m EXCEPT ![c].size = sz, ![c].next = newChunk]

\* a split that gives the remainder the room of its own header too
splitChunkNoHeader(m, c, sz) ==
    LET newChunk == c + sz + CHUNK_SIZE
        hdr == Header(MAGIC_NUMBER, (m[c].size - sz) % SizeRange, TRUE,
                      m[c].next, NoThread)
    IN  (newChunk :> hdr) @@ [m EXCEPT ![c].size = sz, ![c].next = newChunk]

\* splitChunk(chunk, size): the memory after the call
splitChunk(m, c, sz) ==
    LET newChunk == c + sz + CHUNK_SIZE
        hdr == Header(MAGIC_NUMBER, (m[c].size - sz - CHUNK_SIZE) % SizeRange, TRUE,
                      m[c].next, NoThread)
    IN  (newChunk :> hdr) @@ [m EXCEPT ![c].size = sz, ![c].next = newChunk]

\* the test of the loop of heapMergeChunks
mergeCondition(m, c) == m[c].next # NULL /\ m[m[c].next].isFree

\* a merge that forgets the absorbed header's own bytes
mergeOnceNoHeader(m, c) ==
    LET n == m[c].next
    IN  [m EXCEPT ![c].size = (m[c].size + m[n].size) % SizeRange,
                  ![c].next = m[n].next]

\* the body of the loop of heapMergeChunks
mergeOnce(m, c) ==
    LET n == m[c].next
    IN  [m EXCEPT ![c].size = (m[c].size + CHUNK_SIZE + m[n].size) % SizeRange,
                  ![c].next = m[n].next]

\* a release that also lets a free predecessor absorb the chunk
markFreeBothWays(m, c) ==
    LET m1 == [m EXCEPT ![c].isFree = TRUE]
        preds == {a \in DOMAIN m : m[a].next = c /\ m[a].isFree}
    IN  IF preds = {} THEN m1 ELSE mergeOnce(m1, CHOOSE a \in preds : TRUE)

\* chunk->isFree = true
markFree(m, c) == [m EXCEPT ![c].isFree = TRUE]

\* pthread_mutex_unlock by thread t: the owner frees the lock; unlocking a default
\* mutex one does not hold is undefined: the lock is forced free or left as it is
unlockOutcomes(l, t) == IF l = t THEN {NoThread} ELSE {NoThread, l}

\* the headers reachable from head, in chain order (stops at a repeated header)
RECURSIVE chainFrom(_, _, _)
chainFrom(m, cur, seen) ==
    IF cur = NULL \/ cur \in seen \/ cur \notin DOMAIN m
    THEN <<>>
    ELSE <<cur>> \o chainFrom(m, m[cur].next, seen \cup {cur})

Chain == chainFrom(mem, allChunks, {})

ChainSet == {Chain[i] : i \in 1 .. Len(Chain)}

\* ---------------------------------------------------------------- state

NoMem == [a \in {} |-> 0]

Start(m) ==
    /\ allChunks = NULL
    /\ mem = NoMem
    /\ brk = InitialBreak
    /\ lock = NoThread
    /\ mem_stats = [allocCalls |-> 0, totalAllocated |-> 0, peakMemory |-> 0,
                    sbrkCalls |-> 0, corruptedChunks |-> 0, unfreedChunks |-> 0]
    /\ pc = [t \in Threads |-> "idle"]
    /\ bytes = [t \in Threads |-> 0]
    /\ size = [t \in Threads |-> 0]
    /\ reg = [t \in Threads |-> 0]
    /\ chunk = [t \in Threads |-> NULL]
    /\ last = [t \in Threads |-> NULL]
    /\ held = [t \in Threads |-> {}]
    /\ phase = "running"
    /\ current = NULL
    /\ calls = 0
    /\ mode = m
    /\ hist = <<>>

\* several threads use the allocator
Init == Start("threads")

\* main() alone uses the allocator
InitMain == Start("main")

\* main() alone uses the allocator and may ask for SIZE_MAX bytes
InitWide == Start("wide")

\* several threads use the allocator with the byte counts FairRequests
InitFair == Start("fair")

\* ---------------------------------------------------------------- steps

\* thread t may call the allocator
MayCall(t) ==
    /\ phase = "running"
    /\ pc[t] = "idle"
    /\ mode \in Concurrent \/ t = MainThread

Snapshot == [mem |-> mem, allChunks |-> allChunks, mem_stats |-> mem_stats, brk |-> brk]

\* the history after a call op(arg) that starts in state pre
Called(op, arg, pre) ==
    IF mode \notin Concurrent
    THEN LET h == Append(hist, [op |-> op, arg |-> arg, pre |-> pre, ret |-> NULL])
         IN  IF Len(h) > HistLen THEN Tail(h) ELSE h
    ELSE hist

\* the history after the last call has returned r
Returned(r) ==
    IF mode \notin Concurrent /\ hist # <<>>
    THEN [hist EXCEPT ![Len(hist)].ret = r]
    ELSE hist

\* thread t leaves the allocator: its locals are dead
Leave(t) ==
    /\ pc' = [pc EXCEPT ![t] = "idle"]
    /\ bytes' = [bytes EXCEPT ![t] = 0]
    /\ size' = [size EXCEPT ![t] = 0]
    /\ reg' = [reg EXCEPT ![t] = 0]
    /\ chunk' = [chunk EXCEPT ![t] = NULL]
    /\ last' = [last EXCEPT ![t] = NULL]

\* heapAlloc(n): the call of allocWithStats
HeapAlloc(t, n) ==
    /\ MayCall(t)
    /\ calls < MaxCalls
    /\ calls' = calls + 1
    /\ pc' = [pc EXCEPT ![t] = "stat_load"]
    /\ bytes' = [bytes EXCEPT ![t] = n]
    /\ hist' = Called("alloc", n, Snapshot)
    /\ UNCHANGED <<allChunks, mem, brk, lock, mem_stats, size, reg, chunk, last, held,
                   phase, current, mode>>

\* mem_stats.allocCalls++ : the load
StatLoad(t) ==
    /\ pc[t] = "stat_load"
    /\ reg' = [reg EXCEPT ![t] = mem_stats.allocCalls]
    /\ pc' = [pc EXCEPT ![t] = "stat_store"]
    /\ UNCHANGED <<allChunks, mem, brk, lock, mem_stats, bytes, size, chunk, last, held,
                   phase, current, calls, mode, hist>>

\* the statistics of allocWithStats after the store of allocCalls
statsAfter(st, r, n) ==
    LET total == (st.totalAllocated + n) % SizeRange
    IN  [st EXCEPT !.allocCalls = r + 1,
                   !.totalAllocated = total,
                   !.peakMemory = IF total > st.peakMemory THEN total ELSE st.peakMemory]

\* a size test that rejects nothing (size_t is never negative)
invalidSizeNever(n) == n < 0

\* if (size <= 0) return NULL
invalidSize(n) == n <= 0

\* mem_stats.allocCalls++ : the store; then totalAllocated and peakMemory, the call
\* of myAlloc and its test of size
StatStore(t) ==
    /\ pc[t] = "stat_store"
    /\ mem_stats' = statsAfter(mem_stats, reg[t], bytes[t])
    /\ IF invalidSize(bytes[t])
       THEN /\ Leave(t)
            /\ hist' = Returned(NULL)
       ELSE /\ pc' = [pc EXCEPT ![t] = "a_lock"]
            /\ size' = [size EXCEPT ![t] = bytes[t]]
            /\ UNCHANGED <<bytes, reg, chunk, last, hist>>
    /\ UNCHANGED <<allChunks, mem, brk, lock, held, phase, current, calls, mode>>

\* pthread_mutex_lock, then size = ALIGN(size)
AllocLock(t) ==
    /\ pc[t] = "a_lock"
    /\ lock = NoThread
    /\ lock' = t
    /\ size' = [size EXCEPT ![t] = ALIGN(size[t])]
    /\ pc' = [pc EXCEPT ![t] = "a_find"]
    /\ UNCHANGED <<allChunks, mem, brk, mem_stats, bytes, reg, chunk, last, held,
                   phase, current, calls, mode, hist>>

\* what myAlloc's search leaves in chunk and last
searchResult(m, head, sz) ==
    IF head # NULL
    THEN findFreeChunk(m, head, head, sz)
    ELSE [chunk |-> NULL, last |-> NULL]

\* if (allChunks) { last = allChunks; chunk = findFreeChunk(&last, size); }
AllocFind(t) ==
    /\ pc[t] = "a_find"
    /\ LET r == searchResult(mem, allChunks, size[t])
       IN  /\ chunk' = [chunk EXCEPT ![t] = r.chunk]
           /\ last' = [last EXCEPT ![t] = r.last]
           /\ pc' = [pc EXCEPT ![t] = IF r.chunk # NULL THEN "a_take" ELSE "a_grow"]
    /\ UNCHANGED <<allChunks, mem, brk, lock, mem_stats, bytes, size, reg, held,
                   phase, current, calls, mode, hist>>

\* the memory after myAlloc has taken the free chunk c for size sz
takeChunk(m, c, sz) ==
    LET m1 == IF splitNeeded(m[c].size, sz) THEN splitChunk(m, c, sz) ELSE m
    IN  [m1 EXCEPT ![c].isFree = FALSE]

\* if (chunk) { split if there is room; chunk->isFree = false; }
AllocTake(t) ==
    /\ pc[t] = "a_take"
    /\ mem' = takeChunk(mem, chunk[t], size[t])
    /\ pc' = [pc EXCEPT ![t] = "a_unlock"]
    /\ UNCHANGED <<allChunks, brk, lock, mem_stats, bytes, size, reg, chunk, last, held,
                   phase, current, calls, mode, hist>>

\* a growth that asks for the payload alone, without room for the header
totalSizeNoHeader(sz) == sz % SizeRange

\* totalSize = size + CHUNK_SIZE
totalSize(sz) == (sz + CHUNK_SIZE) % SizeRange

\* a fresh chunk that is stamped and never linked behind the tail
appendChunkUnlinked(m, c, l, sz) ==
    (c :> Header(MAGIC_NUMBER, sz, FALSE, NULL, NoThread)) @@ m

\* the memory after the fresh chunk c has been stamped and linked behind l
appendChunk(m, c, l, sz) ==
    LET m1 == (c :> Header(MAGIC_NUMBER, sz, FALSE, NULL, NoThread)) @@ m
    IN  IF l # NULL THEN [m1 EXCEPT ![l].next = c] ELSE m1

\* sbrkWithStats succeeds: the header is stamped and linked
AllocGrow(t) ==
    /\ pc[t] = "a_grow"
    /\ mem_stats' = [mem_stats EXCEPT !.sbrkCalls = @ + 1]
    /\ brk' = brk + totalSize(size[t])
    /\ chunk' = [chunk EXCEPT ![t] = brk]
    /\ mem' = appendChunk(mem, brk, last[t], size[t])
    /\ allChunks' = IF last[t] # NULL THEN allChunks ELSE brk
    /\ pc' = [pc EXCEPT ![t] = "a_unlock"]
    /\ UNCHANGED <<lock, bytes, size, reg, last, held, phase, current, calls, mode, hist>>

\* a failure path that asks the arena source a second time
AllocGrowFailRetry(t) ==
    /\ pc[t] = "a_grow"
    /\ mem_stats' = [mem_stats EXCEPT !.sbrkCalls = @ + 2]
    /\ lock' \in unlockOutcomes(lock, t)
    /\ Leave(t)
    /\ hist' = Returned(NULL)
    /\ UNCHANGED <<allChunks, mem, brk, held, phase, current, calls, mode>>

\* a failure path that returns without the unlock
AllocGrowFailKeepsLock(t) ==
    /\ pc[t] = "a_grow"
    /\ mem_stats' = [mem_stats EXCEPT !.sbrkCalls = @ + 1]
    /\ Leave(t)
    /\ hist' = Returned(NULL)
    /\ UNCHANGED <<allChunks, mem, brk, lock, held, phase, current, calls, mode>>

\* sbrkWithStats fails: sbrk returns (void*)-1; unlock and return NULL
AllocGrowFail(t) ==
    /\ pc[t] = "a_grow"
    /\ mem_stats' = [mem_stats EXCEPT !.sbrkCalls = @ + 1]
    /\ lock' \in unlockOutcomes(lock, t)
    /\ Leave(t)
    /\ hist' = Returned(NULL)
    /\ UNCHANGED <<allChunks, mem, brk, held, phase, current, calls, mode>>

\* pthread_mutex_unlock at the end of myAlloc
AllocUnlock(t) ==
    /\ pc[t] = "a_unlock"
    /\ lock' \in unlockOutcomes(lock, t)
    /\ pc' = [pc EXCEPT ![t] = "a_stamp"]
    /\ UNCHANGED <<allChunks, mem, brk, mem_stats, bytes, size, reg, chunk, last, held,
                   phase, current, calls, mode, hist>>

\* chunk->file = file; chunk->line = line; return chunk + 1
AllocReturn(t) ==
    /\ pc[t] = "a_stamp"
    /\ mem' = [mem EXCEPT ![chunk[t]].line = t]
    /\ held' = [held EXCEPT ![t] = @ \cup {chunk[t] + CHUNK_SIZE}]
    /\ Leave(t)
    /\ hist' = Returned(chunk[t] + CHUNK_SIZE)
    /\ UNCHANGED <<allChunks, brk, lock, mem_stats, phase, current, calls, mode>>

\* heapFree(NULL) returns at once
HeapFreeNull(t) ==
    /\ MayCall(t)
    /\ UNCHANGED vars

\* heapFree(p) of a pointer the thread holds; sentinel is what the header in
\* front of p holds at the call: what was there, or what the caller has written
\* over it
HeapFree(t, p, sentinel) ==
    /\ MayCall(t)
    /\ p \in held[t]
    /\ held' = [held EXCEPT ![t] = @ \ {p}]
    /\ mem' = [mem EXCEPT ![p - CHUNK_SIZE].magic = sentinel]
    /\ chunk' = [chunk EXCEPT ![t] = p - CHUNK_SIZE]
    /\ pc' = [pc EXCEPT ![t] = "f_lock"]
    /\ hist' = Called("free", p, [Snapshot EXCEPT !.mem = mem'])
    /\ UNCHANGED <<allChunks, brk, lock, mem_stats, bytes, size, reg, last, phase,
                   current, calls, mode>>

\* pthread_mutex_lock in heapFree
FreeLock(t) ==
    /\ pc[t] = "f_lock"
    /\ lock = NoThread
    /\ lock' = t
    /\ pc' = [pc EXCEPT ![t] = "f_check"]
    /\ UNCHANGED <<allChunks, mem, brk, mem_stats, bytes, size, reg, chunk, last, held,
                   phase, current, calls, mode, hist>>

\* the statement heapFree executes after its sentinel test: the mismatch branch
\* has no return, so both outcomes go on to chunk->isFree = true
afterCheck(mismatch) == "f_mark"

\* if (chunk->magic != MAGIC_NUMBER) { corruptedChunks++; unlock; perror; }
FreeCheck(t) ==
    /\ pc[t] = "f_check"
    /\ LET mismatch == mem[chunk[t]].magic # MAGIC_NUMBER
       IN  /\ IF mismatch
              THEN /\ mem_stats' = [mem_stats EXCEPT !.corruptedChunks = @ + 1]
                   /\ lock' \in unlockOutcomes(lock, t)
              ELSE UNCHANGED <<mem_stats, lock>>
           /\ pc' = [pc EXCEPT ![t] = afterCheck(mismatch)]
    /\ UNCHANGED <<allChunks, mem, brk, bytes, size, reg, chunk, last, held,
                   phase, current, calls, mode, hist>>

\* chunk->isFree = true; if (chunk->next) heapMergeChunks(chunk);
FreeMark(t) ==
    /\ pc[t] = "f_mark"
    /\ mem' = markFree(mem, chunk[t])
    /\ pc' = [pc EXCEPT ![t] = IF mem[chunk[t]].next # NULL THEN "f_merge" ELSE "f_unlock"]
    /\ UNCHANGED <<allChunks, brk, lock, mem_stats, bytes, size, reg, chunk, last, held,
                   phase, current, calls, mode, hist>>

\* a merge with an if in place of the while: at most one successor is absorbed
FreeMergeOnce(t) ==
    /\ pc[t] = "f_merge"
    /\ mem' = IF mergeCondition(mem, chunk[t]) THEN mergeOnce(mem, chunk[t]) ELSE mem
    /\ pc' = [pc EXCEPT ![t] = "f_unlock"]
    /\ UNCHANGED <<allChunks, brk, lock, mem_stats, bytes, size, reg, chunk, last, held,
                   phase, current, calls, mode, hist>>

\* one test of the loop of heapMergeChunks, and its body when the test holds
FreeMerge(t) ==
    /\ pc[t] = "f_merge"
    /\ IF mergeCondition(mem, chunk[t])
       THEN /\ mem' = mergeOnce(mem, chunk[t])
            /\ pc' = pc
       ELSE /\ mem' = mem
            /\ pc' = [pc EXCEPT ![t] = "f_unlock"]
    /\ UNCHANGED <<allChunks, brk, lock, mem_stats, bytes, size, reg, chunk, last, held,
                   phase, current, calls, mode, hist>>

\* pthread_mutex_unlock at the end of heapFree
FreeUnlock(t) ==
    /\ pc[t] = "f_unlock"
    /\ lock' \in unlockOutcomes(lock, t)
    /\ Leave(t)
    /\ hist' = Returned(NULL)
    /\ UNCHANGED <<allChunks, mem, brk, mem_stats, held, phase, current, calls, mode>>

\* main returns and exit() runs checkForUnfreedChunks: current = allChunks
AtExit ==
    /\ phase = "running"
    /\ \A t \in Threads : pc[t] = "idle"
    /\ phase' = "audit"
    /\ current' = allChunks
    /\ UNCHANGED <<allChunks, mem, brk, lock, mem_stats, pc, bytes, size, reg, chunk,
                   last, held, calls, mode, hist>>

\* an audit that counts every chunk it visits
auditCountAll(st, h) == [st EXCEPT !.unfreedChunks = @ + 1]

\* the statistics after the audit has visited header h
auditCount(st, h) ==
    IF ~h.isFree THEN [st EXCEPT !.unfreedChunks = @ + 1] ELSE st

\* one iteration of the loop of checkForUnfreedChunks
AuditStep ==
    /\ phase = "audit"
    /\ current # NULL
    /\ mem_stats' = auditCount(mem_stats, mem[current])
    /\ current' = mem[current].next
    /\ UNCHANGED <<allChunks, mem, brk, lock, pc, bytes, size, reg, chunk, last, held,
                   phase, calls, mode, hist>>

\* the loop of checkForUnfreedChunks ends
AuditEnd ==
    /\ phase = "audit"
    /\ current = NULL
    /\ phase' = "exited"
    /\ UNCHANGED <<allChunks, mem, brk, lock, mem_stats, pc, bytes, size, reg, chunk,
                   last, held, current, calls, mode, hist>>

Step(t) ==
    \/ \E n \in RequestsOf(mode) : HeapAlloc(t, n)
    \/ StatLoad(t)
    \/ StatStore(t)
    \/ AllocLock(t)
    \/ AllocFind(t)
    \/ AllocTake(t)
    \/ AllocGrow(t)
    \/ AllocGrowFail(t)
    \/ AllocUnlock(t)
    \/ AllocReturn(t)
    \/ HeapFreeNull(t)
    \/ \E p \in held[t] :
          \E s \in {mem[p - CHUNK_SIZE].magic} \cup BadSentinels : HeapFree(t, p, s)
    \/ FreeLock(t)
    \/ FreeCheck(t)
    \/ FreeMark(t)
    \/ FreeMerge(t)
    \/ FreeUnlock(t)

\* a step of thread t inside a call it has started: the scheduler runs every
\* thread that can run, while starting a call is the caller's choice
Advance(t) ==
    \/ StatLoad(t)
    \/ StatStore(t)
    \/ AllocLock(t)
    \/ AllocFind(t)
    \/ AllocTake(t)
    \/ AllocGrow(t)
    \/ AllocGrowFail(t)
    \/ AllocUnlock(t)
    \/ AllocReturn(t)
    \/ FreeLock(t)
    \/ FreeCheck(t)
    \/ FreeMark(t)
    \/ FreeMerge(t)
    \/ FreeUnlock(t)

Next ==
    \/ \E t \in Threads : Step(t)
    \/ AtExit
    \/ AuditStep
    \/ AuditEnd

\* several threads call heapAlloc and heapFree
Spec == Init /\ [][Next]_vars

\* main() alone calls heapAlloc and heapFree
SpecMain == InitMain /\ [][Next]_vars

\* the allocator used by main() alone or by several threads
SpecAny == (Init \/ InitMain) /\ [][Next]_vars

\* main() alone, with a request of SIZE_MAX bytes among its calls
SpecWide == InitWide /\ [][Next]_vars

\* several threads under a fair scheduler: a thread that can take its next step
\* inside a call is not left waiting forever
SpecFair == InitFair /\ [][Next]_vars /\ \A t \in Threads : WF_vars(Advance(t))

\* ------------------------------------------------------------ vocabulary

AllIdle == \A t \in Threads : pc[t] = "idle"

\* no caller has overwritten a sentinel: no release has seen a mismatch and none
\* is about to
SentinelsIntact ==
    /\ mem_stats.corruptedChunks = 0
    /\ \A t \in Threads :
          pc[t] \in {"f_lock", "f_check"} => mem[chunk[t]].magic = MAGIC_NUMBER

\* the allocations handed out and not released: <<thread, "held", p>> for a
\* pointer the thread holds, <<thread, "new", p>> for one myAlloc is returning
Outstanding ==
    (UNION {{<<t, "held", p>> : p \in held[t]} : t \in Threads})
    \cup {<<t, "new", chunk[t] + CHUNK_SIZE>> :
             t \in {u \in Threads : pc[u] \in {"a_unlock", "a_stamp"}}}

\* the payload [p, p + size) behind pointer p
PayloadEnd(p) == p + mem[p - CHUNK_SIZE].size

\* ------------------------------------------------------------------- C1

C2_AllocCallsExact ==
    AllIdle => mem_stats.allocCalls = calls

\* ------------------------------------------------------------------- C3

\* the chain reaches NULL without meeting a header twice, and every link is NULL
\* or the address of a header whose sentinel is MAGIC_NUMBER
ChainValid ==
    /\ allChunks # NULL => allChunks \in DOMAIN mem /\ mem[allChunks].magic = MAGIC_NUMBER
    /\ \A c \in ChainSet :
          mem[c].next # NULL =>
              /\ mem[c].next \in DOMAIN mem
              /\ mem[mem[c].next].magic = MAGIC_NUMBER
    /\ Chain # <<>> => mem[Chain[Len(Chain)]].next = NULL

\* C3: with several threads allocating and releasing their own pointers and all
\* sentinels intact, whenever the lock is free the chain from allChunks has no
\* cycle and every next link is NULL or points to a header with the sentinel.
C3_ChainValid ==
    (lock = NoThread /\ SentinelsIntact) => ChainValid

\* both threads are inside calls with the lock free, after a split and a release
\* have reshaped a chain of at least three chunks
C3_Witness ==
    /\ mode = "threads"
    /\ lock = NoThread
    /\ SentinelsIntact
    /\ \A t \in Threads : pc[t] # "idle"
    /\ Len(Chain) >= 3
    /\ mem_stats.sbrkCalls < Len(Chain)

\* ------------------------------------------------------------------- C4

\* thread t is about to write allChunks, a size, isFree or next field, or to grow
\* the arena
WritesChain(t) ==
    \/ pc[t] \in {"a_take", "a_grow", "f_mark"}
    \/ pc[t] = "f_merge" /\ mergeCondition(mem, chunk[t])

\* C4: a thread that writes the chain head, a chunk's size, isFree or next, or
\* that grows the arena, holds the global lock at that moment, also on the path
\* heapFree takes after a sentinel mismatch.
C4_WritesUnderLock ==
    \A t \in Threads : WritesChain(t) => lock = t

\* ------------------------------------------------------------------- C5

\* the last call of main(), once it has returned
LastCall == hist[Len(hist)]

Returned0 == mode \notin Concurrent /\ hist # <<>> /\ pc[MainThread] = "idle" /\ phase = "running"

\* C5: heapFree(p) on a chunk whose sentinel is not MAGIC_NUMBER adds exactly one
\* to corruptedChunks and stops: isFree is not set, nothing is merged, and the
\* size and next of every chunk are as they were before the call.
C5_MismatchStops ==
    (/\ Returned0
     /\ LastCall.op = "free"
     /\ LastCall.pre.mem[LastCall.arg - CHUNK_SIZE].magic # MAGIC_NUMBER)
    => LET pre == LastCall.pre
           c == LastCall.arg - CHUNK_SIZE
       IN  /\ mem_stats.corruptedChunks = pre.mem_stats.corruptedChunks + 1
           /\ mem[c].isFree = pre.mem[c].isFree
           /\ \A a \in DOMAIN pre.mem :
                 mem[a].size = pre.mem[a].size /\ mem[a].next = pre.mem[a].next

\* -------------------------------------------------- the calls of main()

\* the last three calls of main(), the last of which has returned
Call1 == hist[Len(hist) - 2]
Call2 == hist[Len(hist) - 1]
Call3 == hist[Len(hist)]

\* the chain of a recorded state
ChainOf(st) == chainFrom(st.mem, st.allChunks, {})

\* the headers that precede header c in the chain of a recorded state
Before(st, c) ==
    LET ch == ChainOf(st)
    IN  {ch[i] : i \in {j \in 1 .. Len(ch) : \A k \in 1 .. j : ch[k] # c}}

\* header a of memory m is free and large enough for sz
Fits(m, a, sz) == m[a].isFree /\ m[a].size >= sz

\* heapFree(p) called with the sentinel in front of p intact
GoodFree(call, p) ==
    /\ call.op = "free"
    /\ call.arg = p
    /\ call.pre.mem[p - CHUNK_SIZE].magic = MAGIC_NUMBER

\* p = heapAlloc(n); heapFree(p); heapAlloc(m) with 0 < m <= n, one after the other
RoundTrip ==
    /\ Returned0
    /\ Len(hist) >= 3
    /\ Call1.op = "alloc" /\ Call1.ret # NULL
    /\ GoodFree(Call2, Call1.ret)
    /\ Call3.op = "alloc" /\ Call3.arg > 0 /\ Call3.arg <= Call1.arg

\* ------------------------------------------------------------------- C6

NoEarlierFit ==
    \A a \in Before(Call3.pre, Call1.ret - CHUNK_SIZE) :
        ~Fits(Call3.pre.mem, a, ALIGN(Call3.arg))

SplitCase ==
    /\ RoundTrip
    /\ ALIGN(Call3.arg) < ALIGN(Call1.arg)
    /\ ALIGN(Call1.arg) - ALIGN(Call3.arg) >= CHUNK_SIZE + ALIGNMENT

\* the chunk returned by the last call has size k and is followed by a free chunk
\* of size n - k - CHUNK_SIZE
SplitResult ==
    /\ Call3.ret # NULL
    /\ LET c == Call3.ret - CHUNK_SIZE
       IN  /\ mem[c].size = ALIGN(Call3.arg)
           /\ mem[c].next # NULL
           /\ mem[c].next \in ChainSet
           /\ mem[mem[c].next].isFree
           /\ mem[mem[c].next].size = ALIGN(Call1.arg) - ALIGN(Call3.arg) - CHUNK_SIZE

\* C7 as stated: allocating n, releasing it, then allocating k < n with
\* n - k >= CHUNK_SIZE + 8 returns a chunk of size k followed in the chain by a
\* free chunk of size n - k - CHUNK_SIZE (tried on runs in which no sentinel was
\* ever overwritten).
C7_SplitRemainder ==
    (SplitCase /\ mem_stats.corruptedChunks = 0) => SplitResult

\* the released chunk has size exactly n when the second request arrives
SizeIsRequest ==
    Call3.pre.mem[Call1.ret - CHUNK_SIZE].size = ALIGN(Call1.arg)

\* C7 amended: allocating n, releasing it, then allocating k < n with
\* n - k >= CHUNK_SIZE + 8 returns a chunk of size k followed in the chain by a
\* free chunk of size n - k - CHUNK_SIZE, provided the released chunk has size
\* exactly n (it was not reused oversized nor merged with a free successor) and
\* no free chunk of size >= k precedes it in the chain.
C7_SplitOfReleasedChunk ==
    (SplitCase /\ SizeIsRequest /\ NoEarlierFit) => SplitResult /\ Call3.ret = Call1.ret

\* such a split has happened behind another chunk
C7_Witness ==
    /\ SplitCase
    /\ SizeIsRequest
    /\ NoEarlierFit
    /\ SplitResult
    /\ Call1.ret - CHUNK_SIZE # allChunks

\* ------------------------------------------------------------------- C8

\* the last two calls released B and then A, where A.next = B, both were
\* occupied, and B's successor was absent or occupied
LaterFirst(A, B) ==
    /\ Returned0
    /\ Len(hist) >= 2
    /\ GoodFree(Call2, B + CHUNK_SIZE)
    /\ GoodFree(Call3, A + CHUNK_SIZE)
    /\ LET m == Call2.pre.mem
       IN  /\ A \in Before(Call2.pre, B)
           /\ m[A].next = B
           /\ B = A + CHUNK_SIZE + m[A].size
           /\ ~m[A].isFree /\ ~m[B].isFree
           /\ m[B].next = NULL \/ ~m[m[B].next].isFree

\* C8: releasing B and then A, two adjacent occupied chunks (B's successor absent
\* or occupied), leaves one free chunk at A of size size(A) + size(B) + CHUNK_SIZE
\* whose next is B's former next; B is no longer in the chain.
C8_Coalesce ==
    \A A, B \in DOMAIN mem :
        LaterFirst(A, B) =>
            LET m == Call2.pre.mem
            IN  /\ A \in ChainSet
                /\ mem[A].isFree
                /\ mem[A].size = m[A].size + m[B].size + CHUNK_SIZE
                /\ mem[A].next = m[B].next
                /\ B \notin ChainSet

\* the case with an occupied chunk behind B
C8_Witness ==
    \E A, B \in DOMAIN mem :
        /\ LaterFirst(A, B)
        /\ Call2.pre.mem[B].next # NULL
        /\ mem[A].size = Call2.pre.mem[A].size + Call2.pre.mem[B].size + CHUNK_SIZE

\* ------------------------------------------------------------------- C9

\* the last two calls released A and then B, where A.next = B and both were occupied
EarlierFirst(A, B) ==
    /\ Returned0
    /\ Len(hist) >= 2
    /\ GoodFree(Call2, A + CHUNK_SIZE)
    /\ GoodFree(Call3, B + CHUNK_SIZE)
    /\ LET m == Call2.pre.mem
       IN  /\ A \in Before(Call2.pre, B)
           /\ m[A].next = B
           /\ ~m[A].isFree /\ ~m[B].isFree

\* C9: a release never changes the size or next of a chunk that precedes the
\* released chunk in the chain, even a free one; so releasing adjacent chunks A
\* and then B leaves two separate free chunks, A with its original size.
C9_ForwardOnly ==
    /\ (Returned0 /\ GoodFree(Call3, Call3.arg)) =>
          \A a \in Before(Call3.pre, Call3.arg - CHUNK_SIZE) :
              /\ mem[a].size = Call3.pre.mem[a].size
              /\ mem[a].next = Call3.pre.mem[a].next
    /\ \A A, B \in DOMAIN mem :
          EarlierFirst(A, B) =>
              /\ A \in ChainSet /\ B \in ChainSet
              /\ mem[A].isFree /\ mem[B].isFree
              /\ mem[A].size = Call2.pre.mem[A].size
              /\ mem[A].next = B

\* A and then B were released and stand in the chain as two free chunks
C9_Witness ==
    \E A, B \in DOMAIN mem :
        /\ EarlierFirst(A, B)
        /\ mem[A].isFree /\ mem[B].isFree
        /\ mem[A].next = B

\* ------------------------------------------------------------------ C10

\* the chunks of the chain that are marked occupied
Occupied == {c \in ChainSet : ~mem[c].isFree}

\* C10: one run of checkForUnfreedChunks after all calls have returned adds to
\* unfreedChunks exactly the number of chunks of the chain marked occupied, and
\* changes no chunk and no link.
C10_LeakAudit ==
    /\ [](phase = "exited" => mem_stats.unfreedChunks = Cardinality(Occupied))
    /\ [][phase # "running" => (mem' = mem /\ allChunks' = allChunks)]_vars

\* three blocks were allocated, one released, and the audit has counted two
C10_Witness ==
    /\ phase = "exited"
    /\ calls = 3
    /\ Len(Chain) = 3
    /\ Cardinality(UNION {held[t] : t \in Threads}) = 2
    /\ mem_stats.unfreedChunks = 2

\* ------------------------------------------------------------------ C11

\* the last call was heapAlloc(n) with n > 0 and returned NULL: no chunk fitted
\* and sbrk failed
Exhausted ==
    /\ Returned0
    /\ LastCall.op = "alloc"
    /\ LastCall.arg > 0
    /\ LastCall.ret = NULL

\* C11: when allocate finds no fit and the arena source fails, it returns NULL
\* with the lock released; the chain head, every header and the break are as
\* before, sbrkCalls has grown by exactly 1 (no retry), and no chunk of the chain
\* would have fitted.
C11_Exhaustion ==
    Exhausted =>
        LET pre == LastCall.pre
        IN  /\ lock = NoThread
            /\ allChunks = pre.allChunks
            /\ mem = pre.mem
            /\ brk = pre.brk
            /\ mem_stats.sbrkCalls = pre.mem_stats.sbrkCalls + 1
            /\ mem_stats.corruptedChunks = pre.mem_stats.corruptedChunks
            /\ \A a \in ChainSet : ~Fits(pre.mem, a, ALIGN(LastCall.arg))

\* the arena source failed while the chain held a free chunk that was too small
C11_Witness ==
    /\ Exhausted
    /\ \E a \in ChainSet : mem[a].isFree
    /\ \E a \in ChainSet : ~mem[a].isFree

\* ------------------------------------------------------------------ C12

\* the statements of myAlloc from the lock on
InMyAlloc == {"a_lock", "a_find", "a_take", "a_grow", "a_unlock", "a_stamp"}

\* C12: allocate with size 0 returns NULL, never reaches the lock, grows nothing
\* and leaves the chain as it was.
C12_InvalidRequest ==
    /\ \A t \in Threads : pc[t] \in InMyAlloc => bytes[t] > 0
    /\ (Returned0 /\ LastCall.op = "alloc" /\ LastCall.arg = 0) =>
          LET pre == LastCall.pre
          IN  /\ LastCall.ret = NULL
              /\ lock = NoThread
              /\ allChunks = pre.allChunks
              /\ mem = pre.mem
              /\ brk = pre.brk
              /\ mem_stats.sbrkCalls = pre.mem_stats.sbrkCalls

\* heapAlloc(0) has returned while the chain held a free chunk
C12_Witness ==
    /\ Returned0
    /\ LastCall.op = "alloc"
    /\ LastCall.arg = 0
    /\ LastCall.ret = NULL
    /\ \E a \in ChainSet : mem[a].isFree

\* ------------------------------------------------------------------ C13

\* the positions of the chain of a recorded state whose chunk fits sz
FitPositions(st, sz) ==
    {i \in 1 .. Len(ChainOf(st)) : Fits(st.mem, ChainOf(st)[i], sz)}

\* the first chunk of the chain of a recorded state that fits sz
FirstFit(st, sz) ==
    ChainOf(st)[CHOOSE i \in FitPositions(st, sz) : \A j \in FitPositions(st, sz) : i <= j]

\* the last call was heapAlloc(n) with n > 0
Allocated == Returned0 /\ LastCall.op = "alloc" /\ LastCall.arg > 0

\* C13: allocate returns the payload of the first chunk in chain order that is
\* free and at least as large as the aligned request, and asks the arena source
\* exactly when there is none; a fresh chunk starts at the old break and is
\* appended behind the old tail, or becomes the head of an empty chain.
C13_FirstFit ==
    Allocated =>
        LET pre == LastCall.pre
            sz == ALIGN(LastCall.arg)
            old == ChainOf(pre)
        IN  IF FitPositions(pre, sz) # {}
            THEN /\ LastCall.ret = FirstFit(pre, sz) + CHUNK_SIZE
                 /\ mem_stats.sbrkCalls = pre.mem_stats.sbrkCalls
                 /\ brk = pre.brk
            ELSE /\ mem_stats.sbrkCalls = pre.mem_stats.sbrkCalls + 1
                 /\ LastCall.ret # NULL =>
                       /\ LastCall.ret = pre.brk + CHUNK_SIZE
                       /\ Chain = Append(old, pre.brk)
                       /\ mem[pre.brk].next = NULL
                       /\ old = <<>> => allChunks = pre.brk
                       /\ old # <<>> => /\ allChunks = pre.allChunks
                                        /\ mem[old[Len(old)]].next = pre.brk

\* a request skipped a free chunk that was too small and took the second chunk
\* of the chain
C13_Witness ==
    /\ Allocated
    /\ Len(ChainOf(LastCall.pre)) >= 2
    /\ LastCall.pre.mem[ChainOf(LastCall.pre)[1]].isFree
    /\ LastCall.ret = ChainOf(LastCall.pre)[2] + CHUNK_SIZE

\* ------------------------------------------------------------------ C17

\* the last call was heapAlloc(n), n > 0, and a chunk of the chain fitted
Reused == Allocated /\ FitPositions(LastCall.pre, ALIGN(LastCall.arg)) # {}

\* the excess of the reused chunk over the aligned request
Excess == LastCall.pre.mem[FirstFit(LastCall.pre, ALIGN(LastCall.arg))].size
              - ALIGN(LastCall.arg)

\* C17: when allocate reuses a free chunk c for the aligned size s it splits c
\* exactly when c.size - s >= CHUNK_SIZE + 8 (c shrinks to s and a free chunk of
\* the rest follows it); below the threshold the chain keeps its chunks, c keeps
\* its size and next, only isFree becomes false, and c.size >= s.
C17_SplitThreshold ==
    Reused =>
        LET pre == LastCall.pre
            s == ALIGN(LastCall.arg)
            c == FirstFit(pre, s)
        IN  /\ LastCall.ret = c + CHUNK_SIZE
            /\ ~mem[c].isFree
            /\ IF Excess >= CHUNK_SIZE + 8
               THEN /\ Len(Chain) = Len(ChainOf(pre)) + 1
                    /\ mem[c].size = s
                    /\ mem[c].next = c + CHUNK_SIZE + s
                    /\ mem[mem[c].next].isFree
                    /\ mem[mem[c].next].size = Excess - CHUNK_SIZE
                    /\ mem[mem[c].next].next = pre.mem[c].next
               ELSE /\ Chain = ChainOf(pre)
                    /\ DOMAIN mem = DOMAIN pre.mem
                    /\ \A a \in DOMAIN mem \ {c} : mem[a] = pre.mem[a]
                    /\ mem[c].size = pre.mem[c].size
                    /\ mem[c].next = pre.mem[c].next
                    /\ mem[c].magic = pre.mem[c].magic
                    /\ mem[c].size >= s

\* a chunk was reused whole although a header would have fitted in the excess
C17_Witness ==
    /\ Reused
    /\ Excess >= CHUNK_SIZE
    /\ Excess < CHUNK_SIZE + 8
    /\ Chain = ChainOf(LastCall.pre)

\* ------------------------------------------------------------------ C18

RECURSIVE absorbed(_, _)
\* the bytes a merge gains from the run of free chunks that starts at header n
absorbed(m, n) ==
    IF n = NULL \/ ~m[n].isFree
    THEN 0
    ELSE CHUNK_SIZE + m[n].size + absorbed(m, m[n].next)

\* the last call was heapFree(p) with the sentinel in front of p intact
Released(p) == Returned0 /\ GoodFree(LastCall, p)

\* C18: after release(p) with a valid sentinel returns, p's chunk is free, its
\* successor is absent or occupied, and its size has grown by the sum of
\* CHUNK_SIZE + size over the whole run of free chunks that followed it.
C18_MergeFixpoint ==
    \A p \in DOMAIN mem :
        Released(p + CHUNK_SIZE) =>
            LET pre == LastCall.pre.mem
            IN  /\ mem[p].isFree
                /\ mem[p].next = NULL \/ ~mem[mem[p].next].isFree
                /\ mem[p].size = pre[p].size + absorbed(pre, pre[p].next)

\* a release absorbed two free chunks that had not been merged with each other
C18_Witness ==
    \E p \in DOMAIN mem :
        /\ Released(p + CHUNK_SIZE)
        /\ LET pre == LastCall.pre.mem
           IN  /\ pre[p].next # NULL
               /\ pre[pre[p].next].isFree
               /\ pre[pre[p].next].next # NULL
               /\ pre[pre[pre[p].next].next].isFree
               /\ mem[p].size = pre[p].size + pre[pre[p].next].size
                                  + pre[pre[pre[p].next].next].size + 2 * CHUNK_SIZE

\* ------------------------------------------------------------------ C15

\* every chunk of the chain with a successor ends where its successor begins
Adjacent ==
    \A c \in ChainSet :
        mem[c].next # NULL => mem[c].next = c + CHUNK_SIZE + mem[c].size

\* the chain starts at the bottom of the arena and its last chunk ends at the break
Tiled ==
    Chain # <<>> =>
        /\ Chain[1] = InitialBreak
        /\ Chain[Len(Chain)] + CHUNK_SIZE + mem[Chain[Len(Chain)]].size = brk

\* C15: with contiguous growth and releases of outstanding pointers with intact
\* headers only, every chunk reachable from the head that has a successor has it
\* at address + CHUNK_SIZE + size, and the chunks tile the arena from its bottom
\* to the break without gap or overlap.
C15_Adjacency == SentinelsIntact => (Adjacent /\ Tiled)

\* several threads have grown the arena three times and a merge has produced a
\* chunk larger than any request, followed by another chunk
C15_Witness ==
    /\ mode = "threads"
    /\ SentinelsIntact
    /\ mem_stats.sbrkCalls >= 3
    /\ \E c \in ChainSet : mem[c].size > 64 /\ mem[c].next # NULL
    /\ \E t \in Threads : pc[t] # "idle"

\* ------------------------------------------------------------------ C16

\* C16: after any sequence of allocate/release calls every chunk reachable from
\* the head has a size that is a multiple of 8 and at least 8.
C16_SizeInvariant ==
    \A c \in ChainSet : mem[c].size % ALIGNMENT = 0 /\ mem[c].size >= ALIGNMENT

\* ------------------------------------------------------------------ C19

\* thread t is at a pthread_mutex_unlock: the one that ends myAlloc or heapFree,
\* or the one of the mismatch branch of heapFree
AtUnlock(t) ==
    \/ pc[t] \in {"a_unlock", "f_unlock"}
    \/ pc[t] = "f_check" /\ mem[chunk[t]].magic # MAGIC_NUMBER

\* C19: a thread unlocks the global lock only while it is the thread holding it:
\* each call that took the lock releases it once and no path unlocks a lock the
\* caller has already released or that another thread holds.
C19_LockBalance ==
    \A t \in Threads : AtUnlock(t) => lock = t

\* ------------------------------------------------------------------ C20

\* C20: for every requested size n in 1 .. 2^w - 1, when allocate(n) returns a
\* non-null pointer the chunk behind it has size >= n.
C20_CapacitySuffices ==
    (Allocated /\ LastCall.ret # NULL) =>
        mem[LastCall.ret - CHUNK_SIZE].size >= LastCall.arg

\* ------------------------------------------------------------------ C14

\* C14: under fair scheduling every allocate or release call a thread has started
\* eventually returns, and a thread that is not inside a call does not hold the
\* lock; also after a release has taken the mismatch path.
C14_EveryCallReturns ==
    /\ \A t \in Threads : pc[t] # "idle" ~> pc[t] = "idle"
    /\ [](\A t \in Threads : pc[t] = "idle" => lock # t)

\* a thread waits for the lock that the other thread took after a release had
\* met an overwritten sentinel
C14_Witness ==
    /\ mode = "fair"
    /\ mem_stats.corruptedChunks > 0
    /\ \E t, u \in Threads :
          /\ pc[t] \in {"a_lock", "f_lock"}
          /\ lock = u
          /\ u # t

====
